---- MODULE Spec2Model ----
(***************************************************************************)
(* String-based decimal calculator (Lab10.cpp): literal validator,         *)
(* BigDecimal normalisation, magnitude comparison, magnitude add/subtract, *)
(* signed addition, formatting, and the driver loop of main().             *)
(*                                                                         *)
(* A std::string is a sequence of character codes (ASCII), so that         *)
(* c - '0', char('0' + d) and the lexicographic operator< are computed as  *)
(* the code computes them.                                                 *)
(***************************************************************************)
EXTENDS Integers, Sequences, FiniteSets, TLC

(* ---------------- characters and strings ---------------- *)

PlusCh  == 43
MinusCh == 45
DotCh   == 46
ZeroCh  == 48

\* code of a one-character string, for writing tokens readably
CharCode ==
  [c \in {"+", "-", ".", "0", "1", "2", "3", "4", "5", "6", "7", "8", "9", "A"} |->
     CASE c = "+" -> 43 [] c = "-" -> 45 [] c = "." -> 46
       [] c = "0" -> 48 [] c = "1" -> 49 [] c = "2" -> 50 [] c = "3" -> 51
       [] c = "4" -> 52 [] c = "5" -> 53 [] c = "6" -> 54 [] c = "7" -> 55
       [] c = "8" -> 56 [] c = "9" -> 57 [] c = "A" -> 65]

\* the std::string written as a tuple of one-character strings
Str(t) == [i \in 1..Len(t) |-> CharCode[t[i]]]

\* std::isdigit
isdigit(c) == (c - ZeroCh) \in 0..9

\* x[i] of a std::string at the 1-based position i; x[size()] is '\0'
CharAt(x, i) == IF i <= Len(x) THEN x[i] ELSE 0

\* std::string(n, '0')
Zeros(n) == [i \in 1..n |-> ZeroCh]

\* std::string operator< : lexicographic on character codes
RECURSIVE StrLess(_, _)
StrLess(s, t) ==
  IF t = <<>> THEN FALSE
  ELSE IF s = <<>> THEN TRUE
  ELSE IF s[1] # t[1] THEN s[1] < t[1]
  ELSE StrLess(Tail(s), Tail(t))

\* x.find(ch, from) with 1-based positions; 0 stands for npos
RECURSIVE Find(_, _, _)
Find(x, ch, from) ==
  IF from > Len(x) THEN 0
  ELSE IF x[from] = ch THEN from
  ELSE Find(x, ch, from + 1)

(* ---------------- utilities ---------------- *)

\* if (s.size() > 1 && s[0] == '0') s.erase(0, 1);  -- one zero only
trim_leading_zeros_once(s) ==
  IF Len(s) > 1 /\ s[1] = ZeroCh THEN Tail(s) ELSE s

RECURSIVE trim_leading_zeros(_)
trim_leading_zeros(s) ==
  IF Len(s) > 1 /\ s[1] = ZeroCh THEN trim_leading_zeros(Tail(s)) ELSE s

RECURSIVE trim_trailing_zeros(_)
trim_trailing_zeros(s) ==
  IF s # <<>> /\ s[Len(s)] = ZeroCh
  THEN trim_trailing_zeros(SubSeq(s, 1, Len(s) - 1))
  ELSE s

(* ---------------- validation ---------------- *)

\* while (j < x.size() && isdigit(x[j])) ++j;   (1-based j)
RECURSIVE SkipDigits(_, _)
SkipDigits(x, j) ==
  IF j <= Len(x) /\ isdigit(x[j]) THEN SkipDigits(x, j + 1) ELSE j

\* the validator without the check for a digit after '.'
is_valid_double_literal_dot(x) ==
  IF x = <<>> THEN FALSE
  ELSE
    LET signed == (x[1] = PlusCh \/ x[1] = MinusCh)
        i == IF signed THEN 2 ELSE 1
    IN
    IF signed /\ i = Len(x) + 1 THEN FALSE
    ELSE IF i > Len(x) \/ ~isdigit(x[i]) THEN FALSE
    ELSE
      LET j == SkipDigits(x, i) IN
      IF j = Len(x) + 1 THEN TRUE
      ELSE IF x[j] = DotCh THEN SkipDigits(x, j + 1) = Len(x) + 1
      ELSE FALSE

is_valid_double_literal(x) ==
  IF x = <<>> THEN FALSE
  ELSE
    LET signed == (x[1] = PlusCh \/ x[1] = MinusCh)
        i == IF signed THEN 2 ELSE 1
    IN
    IF signed /\ i = Len(x) + 1 THEN FALSE
    ELSE IF i > Len(x) \/ ~isdigit(x[i]) THEN FALSE
    ELSE
      LET j == SkipDigits(x, i) IN
      IF j = Len(x) + 1 THEN TRUE
      ELSE IF x[j] = DotCh THEN
        LET k == j + 1 IN
        IF k > Len(x) THEN FALSE
        ELSE IF ~isdigit(x[k]) THEN FALSE
        ELSE SkipDigits(x, k) = Len(x) + 1
      ELSE FALSE

(* ---------------- BigDecimal ---------------- *)

\* default member initialisers of struct BigDecimal
BigDecimal == [sign |-> 1, intPart |-> <<ZeroCh>>, fracPart |-> <<>>]

isZero(d) == d.intPart = <<ZeroCh>> /\ d.fracPart = <<>>

parse_normalize(x) ==
  LET c0   == CharAt(x, 1)
      sgn  == IF c0 = MinusCh THEN -1 ELSE 1
      i    == IF c0 = PlusCh \/ c0 = MinusCh THEN 2 ELSE 1
      dot  == Find(x, DotCh, i)
      ip0  == IF dot = 0 THEN SubSeq(x, i, Len(x)) ELSE SubSeq(x, i, dot - 1)
      fp0  == IF dot = 0 THEN <<>> ELSE SubSeq(x, dot + 1, Len(x))
      ip   == trim_leading_zeros(ip0)
      fp   == trim_trailing_zeros(fp0)
  IN [sign     |-> IF ip = <<ZeroCh>> /\ fp = <<>> THEN 1 ELSE sgn,
      intPart  |-> ip,
      fracPart |-> fp]

Max(m, n) == IF m > n THEN m ELSE n

\* align_frac: the two operands with their fractions right-padded with '0'
align_frac(a, b) ==
  LET L == Max(Len(a.fracPart), Len(b.fracPart)) IN
  [a |-> [a EXCEPT !.fracPart = a.fracPart \o Zeros(L - Len(a.fracPart))],
   b |-> [b EXCEPT !.fracPart = b.fracPart \o Zeros(L - Len(b.fracPart))]]

cmp_abs(a0, b0) ==
  LET al == align_frac(a0, b0)
      a  == al.a
      b  == al.b
  IN
  IF Len(a.intPart) # Len(b.intPart)
  THEN (IF Len(a.intPart) < Len(b.intPart) THEN -1 ELSE 1)
  ELSE IF a.intPart # b.intPart
  THEN (IF StrLess(a.intPart, b.intPart) THEN -1 ELSE 1)
  ELSE IF a.fracPart # b.fracPart
  THEN (IF StrLess(a.fracPart, b.fracPart) THEN -1 ELSE 1)
  ELSE 0

\* left-pad the shorter integer string with zeros (A.insert(0, n, '0'))
PadLeft(A, B) == IF Len(A) < Len(B) THEN Zeros(Len(B) - Len(A)) \o A ELSE A

\* for (i = size-1; i >= 0; --i) { s = da + db + carry; r[i] = '0' + s % 10; carry = s / 10; }
RECURSIVE AddLoop(_, _, _, _, _)
AddLoop(A, B, i, carry, r) ==
  IF i < 1 THEN [str |-> r, carry |-> carry]
  ELSE
    LET s == (A[i] - ZeroCh) + (B[i] - ZeroCh) + carry IN
    AddLoop(A, B, i - 1, s \div 10, [r EXCEPT ![i] = ZeroCh + (s % 10)])

\* add_abs without the insertion of the final carry
add_abs_nocarry(a0, b0) ==
  LET al   == align_frac(a0, b0)
      a    == al.a
      b    == al.b
      fr   == AddLoop(a.fracPart, b.fracPart, Len(a.fracPart), 0, Zeros(Len(a.fracPart)))
      A    == PadLeft(a.intPart, b.intPart)
      B    == PadLeft(b.intPart, A)
      ir   == AddLoop(A, B, Len(A), fr.carry, Zeros(Len(A)))
  IN [sign     |-> 1,
      intPart  |-> trim_leading_zeros(ir.str),
      fracPart |-> trim_trailing_zeros(fr.str)]

add_abs(a0, b0) ==
  LET al   == align_frac(a0, b0)
      a    == al.a
      b    == al.b
      fr   == AddLoop(a.fracPart, b.fracPart, Len(a.fracPart), 0, Zeros(Len(a.fracPart)))
      A    == PadLeft(a.intPart, b.intPart)
      B    == PadLeft(b.intPart, A)
      ir   == AddLoop(A, B, Len(A), fr.carry, Zeros(Len(A)))
      s    == IF ir.carry # 0 THEN <<ZeroCh + ir.carry>> \o ir.str ELSE ir.str
  IN [sign     |-> 1,
      intPart  |-> trim_leading_zeros(s),
      fracPart |-> trim_trailing_zeros(fr.str)]

\* for (...) { da = A[i]-'0'-borrow; db = B[i]-'0'; if (da < db) { da += 10; borrow = 1; } else borrow = 0; r[i] = '0' + (da - db); }
RECURSIVE SubLoop(_, _, _, _, _)
SubLoop(A, B, i, borrow, r) ==
  IF i < 1 THEN [str |-> r, borrow |-> borrow]
  ELSE
    LET da == A[i] - ZeroCh - borrow
        db == B[i] - ZeroCh
    IN
    IF da < db
    THEN SubLoop(A, B, i - 1, 1, [r EXCEPT ![i] = ZeroCh + (da + 10 - db)])
    ELSE SubLoop(A, B, i - 1, 0, [r EXCEPT ![i] = ZeroCh + (da - db)])

\* sub_abs without trim_leading_zeros(s)
sub_abs_notrim(a0, b0) ==
  LET al   == align_frac(a0, b0)
      a    == al.a
      b    == al.b
      fr   == SubLoop(a.fracPart, b.fracPart, Len(a.fracPart), 0, Zeros(Len(a.fracPart)))
      fp   == trim_trailing_zeros(fr.str)
      A    == PadLeft(a.intPart, b.intPart)
      B    == PadLeft(b.intPart, A)
      ir   == SubLoop(A, B, Len(A), fr.borrow, Zeros(Len(A)))
      s    == ir.str
  IN [sign     |-> 1,
      intPart  |-> IF s = <<ZeroCh>> /\ fp = <<>> THEN <<ZeroCh>> ELSE s,
      fracPart |-> fp]

sub_abs(a0, b0) ==
  LET al   == align_frac(a0, b0)
      a    == al.a
      b    == al.b
      fr   == SubLoop(a.fracPart, b.fracPart, Len(a.fracPart), 0, Zeros(Len(a.fracPart)))
      fp   == trim_trailing_zeros(fr.str)
      A    == PadLeft(a.intPart, b.intPart)
      B    == PadLeft(b.intPart, A)
      ir   == SubLoop(A, B, Len(A), fr.borrow, Zeros(Len(A)))
      s    == trim_leading_zeros(ir.str)
  IN [sign     |-> 1,
      intPart  |-> IF s = <<ZeroCh>> /\ fp = <<>> THEN <<ZeroCh>> ELSE s,
      fracPart |-> fp]

\* r.sign = sgn; if (r.isZero()) r.sign = +1;
WithSign(r, sgn) == [r EXCEPT !.sign = IF isZero(r) THEN 1 ELSE sgn]

\* add_signed giving a's sign to |b| - |a|
add_signed_asign(a, b) ==
  IF isZero(a) THEN b
  ELSE IF isZero(b) THEN a
  ELSE IF a.sign = b.sign THEN WithSign(add_abs(a, b), a.sign)
  ELSE
    LET cmp == cmp_abs(a, b) IN
    IF cmp = 0 THEN [sign |-> 1, intPart |-> <<ZeroCh>>, fracPart |-> <<>>]
    ELSE IF cmp > 0 THEN WithSign(sub_abs(a, b), a.sign)
    ELSE WithSign(sub_abs(b, a), a.sign)

\* add_signed returning the zero operand: if (a.isZero()) return a;
add_signed_retzero(a, b) ==
  IF isZero(a) THEN a
  ELSE IF isZero(b) THEN a
  ELSE IF a.sign = b.sign THEN WithSign(add_abs(a, b), a.sign)
  ELSE
    LET cmp == cmp_abs(a, b) IN
    IF cmp = 0 THEN [sign |-> 1, intPart |-> <<ZeroCh>>, fracPart |-> <<>>]
    ELSE IF cmp > 0 THEN WithSign(sub_abs(a, b), a.sign)
    ELSE WithSign(sub_abs(b, a), b.sign)

\* add_signed keeping a's sign on equal magnitudes: BigDecimal{a.sign, "0", ""}
add_signed_negzero(a, b) ==
  IF isZero(a) THEN b
  ELSE IF isZero(b) THEN a
  ELSE IF a.sign = b.sign THEN WithSign(add_abs(a, b), a.sign)
  ELSE
    LET cmp == cmp_abs(a, b) IN
    IF cmp = 0 THEN [sign |-> a.sign, intPart |-> <<ZeroCh>>, fracPart |-> <<>>]
    ELSE IF cmp > 0 THEN WithSign(sub_abs(a, b), a.sign)
    ELSE WithSign(sub_abs(b, a), b.sign)

add_signed(a, b) ==
  IF isZero(a) THEN b
  ELSE IF isZero(b) THEN a
  ELSE IF a.sign = b.sign THEN WithSign(add_abs(a, b), a.sign)
  ELSE
    LET cmp == cmp_abs(a, b) IN
    IF cmp = 0 THEN [sign |-> 1, intPart |-> <<ZeroCh>>, fracPart |-> <<>>]
    ELSE IF cmp > 0 THEN WithSign(sub_abs(a, b), a.sign)
    ELSE WithSign(sub_abs(b, a), b.sign)

\* to_string writing '+' for a positive value
to_string_plus(x) ==
  IF isZero(x) THEN <<ZeroCh>>
  ELSE (IF x.sign < 0 THEN <<MinusCh>> ELSE <<PlusCh>>)
       \o x.intPart
       \o (IF x.fracPart # <<>> THEN <<DotCh>> \o x.fracPart ELSE <<>>)

to_string(x) ==
  IF isZero(x) THEN <<ZeroCh>>
  ELSE (IF x.sign < 0 THEN <<MinusCh>> ELSE <<>>)
       \o x.intPart
       \o (IF x.fracPart # <<>> THEN <<DotCh>> \o x.fracPart ELSE <<>>)

(* ---------------- bounds of the checked instances ---------------- *)

MaxTextLen == 5     \* longest token given to the validator
MaxInt     == 2     \* integer digits of an arithmetic literal
MaxFrac    == 2     \* fractional digits of an arithmetic literal
MaxOps     == 2     \* further additions applied to a sum
MaxTokens  == 4     \* tokens in the driver's input file

\* tokens given to the validator: every string over these characters
TextChars == {CharCode[c] : c \in {"+", "-", ".", "0", "5", "A"}}
\* the tokens the lab hand-out and section 8 of the specification name
AcceptedExamples ==
  {Str(<<"1">>), Str(<<"1", ".", "0">>), Str(<<"+", "1", ".", "0">>),
   Str(<<"+", "0", "0", "0", "1", ".", "0">>),
   Str(<<"-", "0", "0", "0", "1", ".", "0", "0", "5">>)}
RejectedExamples ==
  {<<>>, Str(<<"+">>), Str(<<"A">>), Str(<<".", "5">>), Str(<<"5", ".">>),
   Str(<<"-", ".", "5">>), Str(<<"-", "5", ".">>), Str(<<"+", "-", "1">>),
   Str(<<"1", ".", ".", "2">>), Str(<<"-", "5", ".", "-", "5">>)}
Texts == UNION {[1..n -> TextChars] : n \in 0..MaxTextLen}
           \cup AcceptedExamples \cup RejectedExamples

\* arithmetic literals: [sign] digits [. digits]
ArithDigits == {CharCode[c] : c \in {"0", "5"}}
Signs == {<<>>, <<PlusCh>>, <<MinusCh>>}
IntStrings  == UNION {[1..n -> ArithDigits] : n \in 1..MaxInt}
FracStrings == UNION {[1..n -> ArithDigits] : n \in 0..MaxFrac}
Literals ==
  {sg \o ip \o (IF fp = <<>> THEN <<>> ELSE <<DotCh>> \o fp) :
     sg \in Signs, ip \in IntStrings, fp \in FracStrings}

\* one-digit integer and fractional parts over all ten digits
AllDigits == {CharCode[c] : c \in {"0", "1", "2", "3", "4", "5", "6", "7", "8", "9"}}
DigitLiterals ==
  {sg \o <<d>> : sg \in {<<>>, <<MinusCh>>}, d \in AllDigits}
    \cup {sg \o <<d, DotCh, e>> : sg \in {<<>>, <<MinusCh>>}, d \in AllDigits, e \in AllDigits}

\* pairs of section 8 of the specification and of the lab hand-out
ExamplePairs ==
  {<<Str(<<"0", ".", "1">>), Str(<<"0", ".", "2">>)>>,
   <<Str(<<"+", "0", "0", "0", "1", ".", "0">>),
     Str(<<"-", "0", "0", "0", "1", ".", "0", "0", "5">>)>>,
   <<Str(<<"1", ".", "5", "0">>), Str(<<"-", "0", "1", ".", "5">>)>>,
   <<Str(<<"9", "9", "9", ".", "9", "9">>), Str(<<"0", ".", "0", "1">>)>>,
   <<Str(<<"1", "0", "0", "0">>), Str(<<"-", "0", ".", "0", "0", "1">>)>>,
   <<Str(<<"-", "1", "2", ".", "3", "4">>), Str(<<"8", "7", ".", "6", "6">>)>>}

\* literals added to a sum
ChainLiterals ==
  {Str(<<"0">>), Str(<<"-", "0", ".", "0", "1">>), Str(<<"9", ".", "9">>),
   Str(<<"-", "9", "1">>)}

\* tokens of the driver's input file (operator>> yields non-empty tokens)
DriverTokens ==
  {Str(<<"3">>), Str(<<"5", ".">>), Str(<<"A">>), Str(<<"-", "0", ".", "5">>),
   Str(<<"+", "0", "1", ".", "5", "0">>), Str(<<"9", "9", ".", "5">>)}
Files == UNION {[1..n -> DriverTokens] : n \in 0..MaxTokens}

(* ---------------- state ---------------- *)

VARIABLES
  text,            \* validator: the token x
  verdict,         \* validator: the value is_valid_double_literal returned
  canon,           \* to_string(parse_normalize(text))
  canon2,          \* to_string(parse_normalize(canon))
  vpc,             \* "read", "checked", "formatted", "reformatted"
  litA, litB,      \* adder: the two operand texts
  opA, opB,        \* BigDecimal A, B
  sum,             \* BigDecimal S
  apc,             \* "read" before, "added" after the addition
  nops,            \* additions applied on top of the first sum
  pc,              \* main: "prompt", "open", "loop", "exit0", "exit1"
  file,            \* main: the tokens of the input file
  pos,             \* main: tokens of fin consumed so far
  lineNo,          \* main: int lineNo
  out,             \* main: the case reports written to std::cout
  adds             \* main: number of calls of add_signed

valVars  == <<text, verdict, canon, canon2, vpc>>
addVars  == <<litA, litB, opA, opB, sum, apc, nops>>
mainVars == <<pc, file, pos, lineNo, out, adds>>
vars == <<text, verdict, canon, canon2, vpc,
          litA, litB, opA, opB, sum, apc, nops,
          pc, file, pos, lineNo, out, adds>>

ValIdle ==
  /\ text = <<>> /\ verdict = FALSE /\ canon = <<>> /\ canon2 = <<>> /\ vpc = "idle"

AddIdle ==
  /\ litA = <<>> /\ litB = <<>> /\ opA = BigDecimal /\ opB = BigDecimal
  /\ sum = BigDecimal /\ apc = "idle" /\ nops = 0

MainIdle ==
  /\ pc = "idle" /\ file = <<>> /\ pos = 0 /\ lineNo = 0 /\ out = <<>> /\ adds = 0

(* ---------------- the validator and the canonical form of one token ------- *)

InitValid ==
  /\ text \in Texts
  /\ verdict = FALSE
  /\ canon = <<>>
  /\ canon2 = <<>>
  /\ vpc = "read"
  /\ AddIdle
  /\ MainIdle

\* bool ok = is_valid_double_literal(x);
Validate ==
  /\ vpc = "read"
  /\ verdict' = is_valid_double_literal(text)
  /\ vpc' = "checked"
  /\ UNCHANGED <<text, canon, canon2, addVars, mainVars>>

\* to_string(parse_normalize(x)) of a validated token
Format ==
  /\ vpc = "checked"
  /\ verdict
  /\ canon' = to_string(parse_normalize(text))
  /\ vpc' = "formatted"
  /\ UNCHANGED <<text, verdict, canon2, addVars, mainVars>>

\* the formatted text parsed and formatted again
Reformat ==
  /\ vpc = "formatted"
  /\ canon2' = to_string(parse_normalize(canon))
  /\ vpc' = "reformatted"
  /\ UNCHANGED <<text, verdict, canon, addVars, mainVars>>

NextValid == Validate \/ Format \/ Reformat

SpecValid == InitValid /\ [][NextValid]_vars

(* ---------------- additions of two literals ---------------- *)

InitAdd ==
  /\ \E p \in (Literals \X Literals) \cup (DigitLiterals \X DigitLiterals)
                \cup ExamplePairs :
       /\ litA = p[1]
       /\ litB = p[2]
  /\ opA = BigDecimal
  /\ opB = BigDecimal
  /\ sum = BigDecimal
  /\ apc = "read"
  /\ nops = 0
  /\ ValIdle
  /\ MainIdle

\* BigDecimal A = parse_normalize(a); B = parse_normalize(b); S = add_signed(A, B);
AddLiterals ==
  /\ apc = "read"
  /\ is_valid_double_literal(litA)
  /\ is_valid_double_literal(litB)
  /\ opA' = parse_normalize(litA)
  /\ opB' = parse_normalize(litB)
  /\ sum' = add_signed(parse_normalize(litA), parse_normalize(litB))
  /\ apc' = "added"
  /\ UNCHANGED <<litA, litB, nops, valVars, mainVars>>

\* add_signed applied to a value that add_signed produced
AddToSum ==
  /\ apc = "added"
  /\ nops < MaxOps
  /\ \E y \in ChainLiterals :
       /\ litA' = to_string(sum)
       /\ litB' = y
       /\ opA' = sum
       /\ opB' = parse_normalize(y)
       /\ sum' = add_signed(sum, parse_normalize(y))
  /\ nops' = nops + 1
  /\ UNCHANGED <<apc, valVars, mainVars>>

NextAdd == AddLiterals \/ AddToSum

SpecAdd == InitAdd /\ [][NextAdd]_vars

(* ---------------- main ---------------- *)

Init ==
  /\ pc = "prompt"
  /\ file \in Files
  /\ pos = 0
  /\ lineNo = 0
  /\ out = <<>>
  /\ adds = 0
  /\ ValIdle
  /\ AddIdle

\* if (!(std::cin >> filename)) return 1;
ReadFileName ==
  /\ pc = "prompt"
  /\ \/ pc' = "open"
     \/ pc' = "exit1"
  /\ UNCHANGED <<file, pos, lineNo, out, adds, valVars, addVars>>

\* std::ifstream fin(filename); if (!fin) return 1;
OpenFile ==
  /\ pc = "open"
  /\ \/ pc' = "loop"
     \/ pc' = "exit1"
  /\ UNCHANGED <<file, pos, lineNo, out, adds, valVars, addVars>>

\* the iteration testing okB before okA
CaseReport_bfirst(n, a, b) ==
  LET okA == is_valid_double_literal(a)
      okB == is_valid_double_literal(b)
      A   == parse_normalize(a)
      B   == parse_normalize(b)
      S   == add_signed(A, B)
  IN
  IF ~okB THEN [case |-> n, a |-> a, b |-> b, invalid |-> {"b"}, line |-> <<>>]
  ELSE IF ~okA THEN [case |-> n, a |-> a, b |-> b, invalid |-> {"a"}, line |-> <<>>]
  ELSE [case |-> n, a |-> a, b |-> b, invalid |-> {},
        line |-> <<to_string(A), to_string(B), to_string(S)>>]

\* what one iteration of the loop writes for the pair (a, b) as case n
CaseReport(n, a, b) ==
  LET okA == is_valid_double_literal(a)
      okB == is_valid_double_literal(b)
      A   == parse_normalize(a)
      B   == parse_normalize(b)
      S   == add_signed(A, B)
  IN
  IF ~okA THEN [case |-> n, a |-> a, b |-> b, invalid |-> {"a"}, line |-> <<>>]
  ELSE IF ~okB THEN [case |-> n, a |-> a, b |-> b, invalid |-> {"b"}, line |-> <<>>]
  ELSE [case |-> n, a |-> a, b |-> b, invalid |-> {},
        line |-> <<to_string(A), to_string(B), to_string(S)>>]

\* the iteration with break in place of continue after an invalid token
LoopBody_break ==
  /\ pc = "loop"
  /\ pos + 2 <= Len(file)
  /\ LET a == file[pos + 1]
         b == file[pos + 2]
         ok == is_valid_double_literal(a) /\ is_valid_double_literal(b)
     IN
     /\ lineNo' = lineNo + 1
     /\ out' = Append(out, CaseReport(lineNo + 1, a, b))
     /\ adds' = IF ok THEN adds + 1 ELSE adds
     /\ pc' = IF ok THEN pc ELSE "exit0"
  /\ pos' = pos + 2
  /\ UNCHANGED <<file, valVars, addVars>>

\* one iteration of while (fin >> a >> b) { ... }
LoopBody ==
  /\ pc = "loop"
  /\ pos + 2 <= Len(file)
  /\ LET a == file[pos + 1]
         b == file[pos + 2]
     IN
     /\ lineNo' = lineNo + 1
     /\ out' = Append(out, CaseReport(lineNo + 1, a, b))
     /\ adds' = IF is_valid_double_literal(a) /\ is_valid_double_literal(b)
                THEN adds + 1 ELSE adds
  /\ pos' = pos + 2
  /\ UNCHANGED <<pc, file, valVars, addVars>>

\* fin >> a >> b fails: fewer than two tokens are left; return 0
LoopExit ==
  /\ pc = "loop"
  /\ pos + 2 > Len(file)
  /\ pos' = Len(file)
  /\ pc' = "exit0"
  /\ UNCHANGED <<file, lineNo, out, adds, valVars, addVars>>

Next == ReadFileName \/ OpenFile \/ LoopBody \/ LoopExit

Spec == Init /\ [][Next]_vars

(* ======================================================================= *)
(* Properties                                                              *)
(* ======================================================================= *)

(* ---------------- exact values (scaled integers) ---------------- *)

\* every value is scaled by 10^ValDigits
ValDigits == MaxFrac + 1

RECURSIVE Pow10(_)
Pow10(n) == IF n = 0 THEN 1 ELSE 10 * Pow10(n - 1)

RECURSIVE DigitsVal(_)
DigitsVal(s) ==
  IF s = <<>> THEN 0
  ELSE 10 * DigitsVal(SubSeq(s, 1, Len(s) - 1)) + (s[Len(s)] - ZeroCh)

\* the number a literal denotes, times 10^ValDigits
LitVal(x) ==
  LET neg  == x[1] = MinusCh
      body == IF x[1] \in {PlusCh, MinusCh} THEN Tail(x) ELSE x
      dot  == IF \E i \in DOMAIN body : body[i] = DotCh
              THEN CHOOSE i \in DOMAIN body : body[i] = DotCh ELSE Len(body) + 1
      ip   == SubSeq(body, 1, dot - 1)
      fp   == SubSeq(body, dot + 1, Len(body))
      mag  == DigitsVal(ip) * Pow10(ValDigits)
                + DigitsVal(fp) * Pow10(ValDigits - Len(fp))
  IN IF neg THEN 0 - mag ELSE mag

\* the number a BigDecimal denotes, times 10^ValDigits
DecVal(d) ==
  d.sign * (DigitsVal(d.intPart) * Pow10(ValDigits)
            + DigitsVal(d.fracPart) * Pow10(ValDigits - Len(d.fracPart)))

\* the grammar of section 4.1: [+|-] digit+ [ . digit+ ]
MatchesGrammar(x) ==
  \E s \in {0, 1}, n \in 1..Len(x), f \in 0..Len(x) :
    /\ Len(x) = s + n + (IF f = 0 THEN 0 ELSE 1 + f)
    /\ s = 1 => x[1] \in {PlusCh, MinusCh}
    /\ \A i \in (s + 1)..(s + n) : isdigit(x[i])
    /\ f > 0 => /\ x[s + n + 1] = DotCh
                /\ \A i \in (s + n + 2)..Len(x) : isdigit(x[i])

\* the invariants of section 3 on a Decimal Value
Normalized(d) ==
  /\ d.sign \in {1, -1}
  /\ d.intPart # <<>>
  /\ \A i \in DOMAIN d.intPart : isdigit(d.intPart[i])
  /\ Len(d.intPart) > 1 => d.intPart[1] # ZeroCh
  /\ \A i \in DOMAIN d.fracPart : isdigit(d.fracPart[i])
  /\ d.fracPart # <<>> => d.fracPart[Len(d.fracPart)] # ZeroCh
  /\ (d.intPart = <<ZeroCh>> /\ d.fracPart = <<>>) => d.sign = 1

CanonicalZero == [sign |-> 1, intPart |-> <<ZeroCh>>, fracPart |-> <<>>]

(* ---------------- validator ---------------- *)

\* C1: is_valid_double_literal returns true exactly for the tokens of the
\* grammar [+|-] digit+ [. digit+], for every token including the empty one
\* and tokens with other characters; the listed malformed tokens are rejected.
C1_ValidatorGrammar ==
  vpc \in {"checked", "formatted", "reformatted"} =>
     /\ verdict <=> MatchesGrammar(text)
     /\ text \in RejectedExamples => ~verdict
     /\ text \in AcceptedExamples => verdict

C1_Witness ==
  /\ vpc = "checked"
  /\ text = Str(<<"-", "5", ".", "-", "5">>)
  /\ ~verdict

\* C8: formatting the parse of a valid literal, then parsing and formatting
\* that text again, gives the same text.
C8_RoundTrip ==
  vpc = "reformatted" => canon2 = canon

C8_Witness ==
  /\ vpc = "reformatted"
  /\ text = Str(<<"-", "0", "0", "0", "1", ".", "0", "0", "5">>)
  /\ canon = Str(<<"-", "1", ".", "0", "0", "5">>)

(* ---------------- arithmetic ---------------- *)

\* the sum is the exact sum of the numbers the operand texts denote
ExactSum ==
  /\ DecVal(opA) = LitVal(litA)
  /\ DecVal(opB) = LitVal(litB)
  /\ DecVal(sum) = LitVal(litA) + LitVal(litB)
  /\ LitVal(to_string(sum)) = LitVal(litA) + LitVal(litB)

IsPair(a, b) == litA = a /\ litB = b

\* C2 as stated: the value add_signed returns denotes exactly the sum of the
\* numbers the two operands denote, in every branch; 0.1 + 0.2 formats as
\* "0.3" and +0001.0 + -0001.005 formats as "-1.005".
C2_ExactSumAsStated ==
  apc = "added" =>
     /\ ExactSum
     /\ IsPair(Str(<<"0", ".", "1">>), Str(<<"0", ".", "2">>))
          => to_string(sum) = Str(<<"0", ".", "3">>)
     /\ IsPair(Str(<<"+", "0", "0", "0", "1", ".", "0">>),
               Str(<<"-", "0", "0", "0", "1", ".", "0", "0", "5">>))
          => to_string(sum) = Str(<<"-", "1", ".", "0", "0", "5">>)

\* C2 amended: the value add_signed returns denotes exactly the sum of the
\* numbers the two operands denote, in every branch; 0.1 + 0.2 formats as
\* "0.3" and +0001.0 + -0001.005 formats as "-0.005".
C2_ExactSum ==
  apc = "added" =>
     /\ ExactSum
     /\ IsPair(Str(<<"0", ".", "1">>), Str(<<"0", ".", "2">>))
          => to_string(sum) = Str(<<"0", ".", "3">>)
     /\ IsPair(Str(<<"+", "0", "0", "0", "1", ".", "0">>),
               Str(<<"-", "0", "0", "0", "1", ".", "0", "0", "5">>))
          => to_string(sum) = Str(<<"-", "0", ".", "0", "0", "5">>)

\* a carry that grows the integer part, out of fractions of different lengths
C2_Witness ==
  /\ apc = "added"
  /\ litA = Str(<<"5", "5", ".", "5">>)
  /\ litB = Str(<<"+", "5", "5", ".", "5", "5">>)
  /\ to_string(sum) = Str(<<"1", "1", "1", ".", "0", "5">>)

\* C3: the values parse_normalize returns for valid literals, and the values
\* add_signed returns for such values and for its own results, are normalized.
C3_Normalized ==
  apc = "added" => Normalized(opA) /\ Normalized(opB) /\ Normalized(sum)

\* a sum of a sum of a sum, negative and with a fraction
C3_Witness ==
  /\ apc = "added"
  /\ nops = 2
  /\ sum.sign = -1
  /\ sum.fracPart # <<>>
  /\ Len(sum.intPart) = 3

\* C4: to_string of a parsed value or of a sum is accepted by
\* is_valid_double_literal, never starts with '+', and is exactly "0" when the
\* value is zero.
C4_FormatValid ==
  apc = "added" =>
     /\ \A v \in {opA, opB, sum} :
          /\ is_valid_double_literal(to_string(v))
          /\ MatchesGrammar(to_string(v))
          /\ to_string(v)[1] # PlusCh
     /\ LitVal(litA) = 0 => to_string(opA) = <<ZeroCh>>
     /\ LitVal(litB) = 0 => to_string(opB) = <<ZeroCh>>
     /\ LitVal(litA) + LitVal(litB) = 0 => to_string(sum) = <<ZeroCh>>

\* a negative operand of larger written form cancels to "0"
C4_Witness ==
  /\ apc = "added"
  /\ litA = Str(<<"-", "5", ".", "5">>)
  /\ litB = Str(<<"+", "0", "5", ".", "5", "0">>)
  /\ to_string(sum) = <<ZeroCh>>

\* C5: add_signed(A, B) and add_signed(B, A) are the same BigDecimal.
C5_Commutative ==
  apc = "added" => add_signed(opB, opA) = sum

\* different signs, the second operand the larger
C5_Witness ==
  /\ apc = "added"
  /\ litA = Str(<<"0", ".", "5", "5">>)
  /\ litB = Str(<<"-", "5", "0">>)
  /\ to_string(sum) = Str(<<"-", "4", "9", ".", "4", "5">>)

\* C6: adding a literal that denotes zero, on either side, returns the other
\* operand's parse unchanged.
C6_Identity ==
  apc = "added" =>
     /\ LitVal(litB) = 0 =>
          sum = opA /\ (nops = 0 => sum = parse_normalize(litA))
     /\ LitVal(litA) = 0 =>
          sum = opB /\ (nops = 0 => sum = parse_normalize(litB))

C6_Witness ==
  /\ apc = "added"
  /\ litA = Str(<<"-", "0", "5", ".", "5", "0">>)
  /\ litB = Str(<<"-", "0", "0", ".", "0", "0">>)
  /\ sum = [sign |-> -1, intPart |-> Str(<<"5">>), fracPart |-> Str(<<"5">>)]

\* C7: the sum of two literals of opposite signs and equal magnitude, however
\* they are written, is canonical zero.
C7_Inverse ==
  (/\ apc = "added"
   /\ (litA[1] = MinusCh) # (litB[1] = MinusCh)
   /\ LitVal(litA) = 0 - LitVal(litB))
    => sum = CanonicalZero

C7_Witness ==
  /\ apc = "added"
  /\ litA = Str(<<"1", ".", "5", "0">>)
  /\ litB = Str(<<"-", "0", "1", ".", "5">>)
  /\ sum = CanonicalZero

(* ---------------- driver ---------------- *)

Failing(r) ==
  {p \in {"a", "b"} : ~is_valid_double_literal(IF p = "a" THEN r.a ELSE r.b)}

SumLine(a, b) ==
  <<to_string(parse_normalize(a)), to_string(parse_normalize(b)),
    to_string(add_signed(parse_normalize(a), parse_normalize(b)))>>

\* C9 as stated: every token of a pair that fails the validator is reported
\* invalid (both when both fail); a pair of valid tokens gets the sum line.
C9_EveryFailingTokenReported ==
  \A i \in DOMAIN out :
    /\ out[i].invalid = Failing(out[i])
    /\ Failing(out[i]) = {} => out[i].line = SumLine(out[i].a, out[i].b)

\* C9 amended: a pair with a failing token gets exactly one invalid report,
\* for a when a fails and otherwise for b; a pair of valid tokens gets the
\* sum line.
C9_FirstFailingTokenReported ==
  \A i \in DOMAIN out :
    /\ "a" \in Failing(out[i]) => out[i].invalid = {"a"}
    /\ Failing(out[i]) = {"b"} => out[i].invalid = {"b"}
    /\ Failing(out[i]) # {} => out[i].line = <<>>
    /\ Failing(out[i]) = {} =>
         out[i].invalid = {} /\ out[i].line = SumLine(out[i].a, out[i].b)

\* both tokens of a pair fail and only a is reported; another pair is summed
C9_Witness ==
  /\ Len(out) = 2
  /\ Failing(out[1]) = {"a", "b"}
  /\ out[1].invalid = {"a"}
  /\ out[2].line = <<Str(<<"-", "0", ".", "5">>), Str(<<"1", ".", "5">>), Str(<<"1">>)>>

ValidPairs(n) ==
  {i \in 1..n : /\ is_valid_double_literal(file[2 * i - 1])
                /\ is_valid_double_literal(file[2 * i])}

\* C10: a pair with an invalid token produces no sum and no call of
\* add_signed, and the loop goes on: every pair of the file, in order, gets
\* its own case number and report, and the loop ends only when the input is
\* exhausted, with every pair reported.
C10_InvalidNotFatal ==
  pc \in {"loop", "exit0"} =>
     /\ Len(out) = lineNo
     /\ \A i \in DOMAIN out :
          /\ out[i].case = i
          /\ out[i].a = file[2 * i - 1]
          /\ out[i].b = file[2 * i]
          /\ (out[i].line = <<>>) <=> (i \notin ValidPairs(Len(out)))
          /\ (out[i].invalid # {}) <=> (i \notin ValidPairs(Len(out)))
     /\ adds = Cardinality(ValidPairs(Len(out)))
     /\ pc = "exit0" => Len(out) = Len(file) \div 2

\* an invalid pair first, a summed pair after it
C10_Witness ==
  /\ pc = "exit0"
  /\ Len(out) = 2
  /\ out[1].invalid # {}
  /\ out[2].case = 2
  /\ out[2].line # <<>>
  /\ adds = 1

====
